---- MODULE Spec2Model ----
(***************************************************************************)
(* State-machine model of src/src/libs/ParallaxScrollListener.js: the      *)
(* registry of parallax elements, the scroll/resize handlers, the          *)
(* requestAnimationFrame debounce and the public methods.                  *)
(*                                                                         *)
(* Conventions.  A JavaScript object is a TLA+ function from its keys to   *)
(* its values; a key that is absent from DOMAIN is `undefined`.  The key   *)
(* "ref" is the identity of the object (what indexOf compares).  Lengths   *)
(* are kept in hundredths of a pixel (Scale) so that percent offsets of an *)
(* element's height stay integers; numbers written into a transform are    *)
(* exact rationals <<numerator, denominator>> in lowest terms.             *)
(***************************************************************************)
EXTENDS Integers, Sequences, FiniteSets, TLC

(* ------------------------------ bounds --------------------------------- *)

\* createElement is called at most MaxId times (cap on the id counter)
MaxId == 2

\* at most MaxPending frame callbacks are queued in the browser at once
MaxPending == 2

(* ------------------------------ inputs --------------------------------- *)

\* the pairs of DOM nodes (_outer measured, _inner styled) of the page: the
\* k-th call of createElement brings the pair k
Nodes == 1..MaxId

\* the node pairs of a page that holds one parallax element further down
LayoutNodes == {MaxId + 1, MaxId + 2}

\* document-relative top of the _outer node, in px
DocTop(n) == IF n \in Nodes THEN 50 ELSE 300

\* offsetHeight and offsetWidth of the _outer node, in px
OffsetHeight(n) == IF n \in Nodes \/ n = MaxId + 1 THEN 100 ELSE 50
OffsetWidth(n) == 200

\* values window.scrollY takes
ScrollPositions == {0, 400}

\* values window.innerHeight takes
WindowHeights == {100}

\* values window.scrollY and window.innerHeight take on the one-element page
LayoutScrollPositions == {0, 180, 280, 290, 300, 420, 500}
LayoutWindowHeights == {100, 200}

\* an offset string such as "-20%", "10px" or "5": its number and its suffix
Off(n, s) == [num |-> n, suffix |-> s]

\* the props objects callers pass
PropsFast ==
    [disabled |-> FALSE, slowerScrollRate |-> FALSE,
     offsetYMin |-> Off(-20, "%"), offsetYMax |-> Off(20, "%"),
     offsetXMin |-> Off(-10, "px"), offsetXMax |-> Off(30, "px")]
PropsBadX ==
    [disabled |-> FALSE, slowerScrollRate |-> TRUE,
     offsetYMin |-> Off(-20, "%"), offsetYMax |-> Off(20, "%"),
     offsetXMin |-> Off(-10, "px"), offsetXMax |-> Off(10, "")]
\* a props object that names only some of the props
PropsDisabledBadY ==
    [disabled |-> TRUE,
     offsetYMin |-> Off(-20, "px"), offsetYMax |-> Off(20, "%")]

PropsChoices ==
    {PropsFast, PropsBadX, PropsDisabledBadY}

\* props of the one-element page: a background layer, and a pair of y offsets
\* whose max lies far below its min
PropsSlow ==
    [disabled |-> FALSE, slowerScrollRate |-> TRUE,
     offsetYMin |-> Off(-20, "px"), offsetYMax |-> Off(40, "px"),
     offsetXMin |-> Off(-5, ""), offsetXMax |-> Off(5, "")]
PropsInverted ==
    [disabled |-> FALSE, slowerScrollRate |-> FALSE,
     offsetYMin |-> Off(-20, "px"), offsetYMax |-> Off(-300, "px"),
     offsetXMin |-> Off(-10, "px"), offsetXMax |-> Off(30, "px")]

LayoutProps == {PropsFast, PropsSlow, PropsInverted}

\* an `id` key a caller may put into an options object
OptionIds == {1}

\* the object with no keys
EmptyObject == [k \in {} |-> 0]

\* options of createElement: the node pair n and the props
CreateOptions(n) == { [_node |-> n, props |-> p] : p \in PropsChoices }

\* options of createElement on the one-element page
LayoutOptions ==
    { [_node |-> n, props |-> p] : n \in LayoutNodes, p \in LayoutProps }

\* options of updateElement: a props object or an id
UpdateOptions ==
    { [props |-> p] : p \in PropsChoices }
    \cup { [id |-> i] : i \in OptionIds }

(* ------------------------------ helpers -------------------------------- *)

\* lengths are integers in units of 1/Scale px (elHeight / 100, line 143)
Scale == 100

Abs(n) == IF n < 0 THEN -n ELSE n

RECURSIVE GCD(_, _)
GCD(a, b) == IF b = 0 THEN a ELSE GCD(b, a % b)

\* the rational n/d in lowest terms with a positive denominator
Rat(n, d) ==
    IF d = 0 THEN <<(IF n > 0 THEN 1 ELSE IF n < 0 THEN -1 ELSE 0), 0>>
    ELSE LET g == GCD(Abs(n), Abs(d))
             s == IF d < 0 THEN -1 ELSE 1
         IN  <<s * (n \div g), s * (d \div g)>>

\* JavaScript truthiness of obj[k] for a boolean-valued key
Truthy(obj, k) == k \in DOMAIN obj /\ obj[k]

(* ------------------------- imported utilities -------------------------- *)

\* parseValueAndUnit: the number of the string and its unit, "%" when the
\* string has none
parseValueAndUnit(str) ==
    [value |-> str.num, unit |-> IF str.suffix = "" THEN "%" ELSE str.suffix]

\* scaleBetween: value (a rational) rescaled linearly from [oldMin, oldMax]
\* to [newMin, newMax]
scaleBetween(value, newMin, newMax, oldMin, oldMax) ==
    LET num == (newMax - newMin) * (value[1] - oldMin * value[2])
        den == value[2] * (oldMax - oldMin)
    IN  Rat(num + newMin * den, den)

(* --------------------------- private functions ------------------------- *)

\* element.k = v
SetKey(element, k, v) == (k :> v) @@ element

\* a slip: the arguments of Object.assign in the wrong order
ObjectAssignSwapped(target, source) == target @@ source

\* Object.assign({}, target, source): the keys of source win
ObjectAssign(target, source) == source @@ target

\* the offsets _setupOffsets derives from props
OffsetsOf(props) ==
    LET yMin == parseValueAndUnit(props.offsetYMin)
        yMax == parseValueAndUnit(props.offsetYMax)
        xMin == parseValueAndUnit(props.offsetXMax)
        xMax == parseValueAndUnit(props.offsetXMin)
    IN  [xUnit |-> IF xMin.unit = "" THEN "%" ELSE xMin.unit,
         yUnit |-> IF yMin.unit = "" THEN "%" ELSE yMin.unit,
         yMin |-> yMin, yMax |-> yMax, xMin |-> xMin, xMax |-> xMax]

\* a slip: the x axis is not compared
UnitsMismatchYOnly(props) ==
    LET o == OffsetsOf(props)
    IN  o.yMin.unit # o.yMax.unit

\* the condition under which _setupOffsets throws
UnitsMismatch(props) ==
    LET o == OffsetsOf(props)
    IN  o.xMin.unit # o.xMax.unit \/ o.yMin.unit # o.yMax.unit

\* _setupOffsets: [threw, element]
_setupOffsets(element) ==
    IF UnitsMismatch(element.props)
    THEN [threw |-> TRUE, element |-> element]
    ELSE [threw |-> FALSE,
          element |-> SetKey(element, "offsets", OffsetsOf(element.props))]

\* the attributes _cacheAttributes reads from the layout; lengths in 1/Scale px
AttributesOf(offsets, props, node, winH, winY) ==
    LET slowerScrollRate == Truthy(props, "slowerScrollRate")
        rectTop == DocTop(node) - winY
        rectBottom == rectTop + OffsetHeight(node)
        elHeight == OffsetHeight(node)
        elWidth == OffsetWidth(node)
        yPercent == offsets.yMax.unit = "%" \/ offsets.yMin.unit = "%"
        xPercent == offsets.xMax.unit = "%" \/ offsets.xMin.unit = "%"
        yMaxPx == IF yPercent THEN offsets.yMax.value * elHeight
                  ELSE offsets.yMax.value * Scale
        yMinPx == IF yPercent THEN offsets.yMin.value * elHeight
                  ELSE offsets.yMin.value * Scale
        xMaxPx == IF xPercent THEN offsets.xMax.value * elWidth
                  ELSE offsets.xMax.value * Scale
        xMinPx == IF xPercent THEN offsets.xMin.value * elWidth
                  ELSE offsets.xMin.value * Scale
    IN  [top |-> (rectTop + winY) * Scale
                    + (IF slowerScrollRate THEN yMinPx ELSE yMaxPx * (-1)),
         bottom |-> (rectBottom + winY) * Scale
                    + (IF slowerScrollRate THEN yMaxPx ELSE yMinPx * (-1)),
         elHeight |-> elHeight * Scale,
         elWidth |-> elWidth * Scale,
         yMaxPx |-> yMaxPx, yMinPx |-> yMinPx,
         xMaxPx |-> xMaxPx, xMinPx |-> xMinPx,
         totalDist |-> winH * Scale + (elHeight * Scale + Abs(yMinPx) + yMaxPx),
         windowHeight |-> winH * Scale]

\* a slip: totalDist leaves out the travel the offsets add
_cacheAttributesShortDist(element, winH, winY) ==
    LET attributes == AttributesOf(element.offsets, element.props,
                                   element._node, winH, winY)
    IN  SetKey(element, "attributes",
               [attributes EXCEPT !.totalDist =
                    attributes.windowHeight + attributes.elHeight])

\* _cacheAttributes: the element with its attributes set
_cacheAttributes(element, winH, winY) ==
    SetKey(element, "attributes",
           AttributesOf(element.offsets, element.props, element._node,
                        winH, winY))

\* a slip: > and < where the code has >= and <=
_isElementInViewStrict(element, sy) ==
    LET windowHeight == element.attributes.windowHeight
        top == element.attributes.top - sy * Scale
        bottom == element.attributes.bottom - sy * Scale
        topInView == top > 0 /\ top < windowHeight
        bottomInView == bottom > 0 /\ bottom < windowHeight
        covering == top <= 0 /\ bottom >= windowHeight
    IN  topInView \/ bottomInView \/ covering

\* _isElementInView at the tracked scroll position sy (px)
_isElementInView(element, sy) ==
    LET windowHeight == element.attributes.windowHeight
        top == element.attributes.top - sy * Scale
        bottom == element.attributes.bottom - sy * Scale
        topInView == top >= 0 /\ top <= windowHeight
        bottomInView == bottom >= 0 /\ bottom <= windowHeight
        covering == top <= 0 /\ bottom >= windowHeight
    IN  topInView \/ bottomInView \/ covering

\* a slip: the sign of top is lost
PercentMovedUnsigned(element, sy) ==
    LET top == element.attributes.top - sy * Scale
    IN  Rat((top + element.attributes.windowHeight) * 100,
            element.attributes.totalDist)

\* percentMoved of _setParallaxStyles, as a rational
PercentMoved(element, sy) ==
    LET top == element.attributes.top - sy * Scale
    IN  Rat((top * (-1) + element.attributes.windowHeight) * 100,
            element.attributes.totalDist)

\* the cssText _setParallaxStyles writes
ParallaxStyle(element, sy) ==
    LET percentMoved == PercentMoved(element, sy)
        o == element.offsets
    IN  IF Truthy(element.props, "slowerScrollRate")
        THEN [willChange |-> "transform",
              x |-> scaleBetween(percentMoved, o.xMin.value, o.xMax.value, 0, 100),
              xUnit |-> o.xUnit,
              y |-> scaleBetween(percentMoved, o.yMin.value, o.yMax.value, 0, 100),
              yUnit |-> o.yUnit]
        ELSE [willChange |-> "transform",
              x |-> scaleBetween(percentMoved, o.xMax.value, o.xMin.value, 0, 100),
              xUnit |-> o.xUnit,
              y |-> scaleBetween(percentMoved, o.yMax.value, o.yMin.value, 0, 100),
              yUnit |-> o.yUnit]

\* a slip: the offsets are added to those the node already has
_setParallaxStylesAdded(st, element, sy) ==
    LET new == ParallaxStyle(element, sy)
        old == st[element._node]
    IN  [st EXCEPT ![element._node] =
             [new EXCEPT !.x = Rat(old.x[1] * @[2] + @[1] * old.x[2],
                                  old.x[2] * @[2]),
                         !.y = Rat(old.y[1] * @[2] + @[1] * old.y[2],
                                  old.y[2] * @[2])]]

\* _setParallaxStyles: the styles of the page after the element's _inner
\* node got its transform
_setParallaxStyles(st, element, sy) ==
    [st EXCEPT ![element._node] = ParallaxStyle(element, sy)]

\* the cssText _resetStyles writes
ResetStyle ==
    [willChange |-> "none", x |-> <<0, 1>>, xUnit |-> "",
     y |-> <<0, 1>>, yUnit |-> ""]

\* the cssText of a node no code has written yet
NoStyle ==
    [willChange |-> "", x |-> <<0, 1>>, xUnit |-> "",
     y |-> <<0, 1>>, yUnit |-> ""]

\* _resetStyles
_resetStyles(st, element) == [st EXCEPT ![element._node] = ResetStyle]

\* a slip: disabled elements are skipped as in the other passes
RECURSIVE _removeParallaxStylesEnabled(_, _, _)
_removeParallaxStylesEnabled(els, st, i) ==
    IF i > Len(els) THEN st
    ELSE _removeParallaxStylesEnabled(
             els,
             IF Truthy(els[i].props, "disabled") THEN st
             ELSE _resetStyles(st, els[i]),
             i + 1)

\* _removeParallaxStyles: _resetStyles for every element of the registry
RECURSIVE _removeParallaxStyles(_, _, _)
_removeParallaxStyles(els, st, i) ==
    IF i > Len(els) THEN st
    ELSE _removeParallaxStyles(els, _resetStyles(st, els[i]), i + 1)

\* _updateElementAttributes from index i on: [threw, els]; a throw of
\* _setupOffsets leaves the elements after it untouched
RECURSIVE _updateElementAttributes(_, _, _, _)
_updateElementAttributes(els, i, winH, winY) ==
    IF i > Len(els) THEN [threw |-> "none", els |-> els]
    ELSE IF Truthy(els[i].props, "disabled")
    THEN _updateElementAttributes(els, i + 1, winH, winY)
    ELSE LET s == _setupOffsets(els[i])
         IN  IF s.threw THEN [threw |-> "config", els |-> els]
             ELSE _updateElementAttributes(
                      [els EXCEPT ![i] = _cacheAttributes(s.element, winH, winY)],
                      i + 1, winH, winY)

\* _updateElementPositions from index i on: [threw, style, ticking]; reading
\* the attributes of an element that has none is a TypeError
RECURSIVE _updateElementPositions(_, _, _, _, _)
_updateElementPositions(els, i, st, tick, sy) ==
    IF i > Len(els) THEN [threw |-> "none", style |-> st, ticking |-> tick]
    ELSE IF Truthy(els[i].props, "disabled")
    THEN _updateElementPositions(els, i + 1, st, tick, sy)
    ELSE IF "attributes" \notin DOMAIN els[i]
    THEN [threw |-> "type", style |-> st, ticking |-> tick]
    ELSE _updateElementPositions(
             els, i + 1,
             IF _isElementInView(els[i], sy)
             THEN _setParallaxStyles(st, els[i], sy) ELSE st,
             FALSE, sy)

\* a slip: the attributes are updated, the positions are not
updateAttributesOnly(els, st, tick, sy, winH, winY) ==
    LET a == _updateElementAttributes(els, 1, winH, winY)
    IN  [threw |-> a.threw, els |-> a.els, style |-> st, ticking |-> tick]

\* update(): _updateElementAttributes then _updateElementPositions
\* [threw, els, style, ticking]
update(els, st, tick, sy, winH, winY) ==
    LET a == _updateElementAttributes(els, 1, winH, winY)
    IN  IF a.threw # "none"
        THEN [threw |-> a.threw, els |-> a.els, style |-> st, ticking |-> tick]
        ELSE LET p == _updateElementPositions(a.els, 1, st, tick, sy)
             IN  [threw |-> p.threw, els |-> a.els, style |-> p.style,
                  ticking |-> p.ticking]

(* -------------------------------- state -------------------------------- *)

VARIABLES
    elements,       \* the registry: a sequence of element objects
    elementsNeg1,   \* the registry array has a property "-1"
    scrollY,        \* tracked scroll position
    id,             \* id counter
    ticking,        \* a frame has been requested
    scrollDown,     \* "null", "true" or "false"
    listening,      \* the scroll and resize listeners are attached to window
    singleton,      \* window.ParallaxScrollListener still refers to the instance
    rafPending,     \* number of requested frame callbacks not yet run
    style,          \* cssText of the _inner node of every node pair
    windowScrollY,  \* window.scrollY
    windowHeight,   \* window.innerHeight
    thrown          \* what the last operation threw: "none", "config", "type"

vars == <<elements, elementsNeg1, scrollY, id, ticking, scrollDown, listening,
          singleton, rafPending, style, windowScrollY, windowHeight, thrown>>

Init ==
    /\ elements = <<>>
    /\ elementsNeg1 = FALSE
    /\ scrollY = 0
    /\ id = 0
    /\ ticking = FALSE
    /\ scrollDown = "null"
    /\ listening = TRUE
    /\ singleton = TRUE
    /\ rafPending = 0
    /\ style = [n \in Nodes |-> NoStyle]
    /\ windowScrollY = 0
    /\ windowHeight \in WindowHeights
    /\ thrown = "none"

\* identities: the object the k-th call of createElement returns has identity
\* k.  An object that no caller holds has identity Anonymous: the copy
\* Object.assign({}, ...) makes in updateElement, and the object of a call
\* of createElement that threw before its return.  An object of the caller
\* that is not in the registry has identity Foreign.
Anonymous == 0
Foreign == -1

\* the objects of the registry that a caller holds
Handles(els) == {els[k].ref : k \in 1..Len(els)} \ {Anonymous}

\* elements.indexOf(object with identity r), 0 when JavaScript returns -1
IndexOf(els, r) ==
    IF \E i \in 1..Len(els) : els[i].ref = r
    THEN CHOOSE i \in 1..Len(els) :
             els[i].ref = r /\ \A j \in 1..(i - 1) : els[j].ref # r
    ELSE 0

\* a slip: Math.max(index, 0), the first entry when no id matches
FindIndexOrFirst(els, i) ==
    IF \E k \in 1..Len(els) : els[k].id = i
    THEN CHOOSE k \in 1..Len(els) :
             els[k].id = i /\ \A j \in 1..(k - 1) : els[j].id # i
    ELSE IF Len(els) > 0 THEN 1 ELSE 0

\* elements.findIndex(el => el.id === i), 0 when JavaScript returns -1
FindIndex(els, i) ==
    IF \E k \in 1..Len(els) : els[k].id = i
    THEN CHOOSE k \in 1..Len(els) :
             els[k].id = i /\ \A j \in 1..(k - 1) : els[j].id # i
    ELSE 0

\* elements[index] = element; elements[-1] is the property "-1" of the
\* array, which no length, forEach, indexOf or findIndex sees
ReplaceAt(els, index, element) ==
    IF index # 0 THEN [els EXCEPT ![index] = element] ELSE els

\* a slip: splice(index) without a count removes the tail too
SpliceTail(els, index) == [k \in 1..(index - 1) |-> els[k]]

\* elements.splice(index, 1)
Splice(els, index) ==
    [k \in 1..(Len(els) - 1) |-> IF k < index THEN els[k] ELSE els[k + 1]]

(* ---------------------------- public methods --------------------------- *)

\* _createID
_createID == id + 1

createElement(options) ==
    /\ id < MaxId
    /\ LET element == options @@ [id |-> _createID, ref |-> _createID]
           u == update(Append(elements, element), style, ticking, scrollY,
                       windowHeight, windowScrollY)
       IN  /\ id' = _createID
           /\ elements' = IF u.threw = "none" THEN u.els
                          ELSE [u.els EXCEPT ![Len(u.els)] =
                                    SetKey(@, "ref", Anonymous)]
           /\ style' = u.style
           /\ ticking' = u.ticking
           /\ thrown' = u.threw
    /\ UNCHANGED <<elementsNeg1, scrollY, scrollDown, listening, singleton,
                   rafPending, windowScrollY, windowHeight>>

\* the argument is an object with identity r
removeElement(r) ==
    /\ LET index == IndexOf(elements, r)
       IN  /\ elements' = IF index # 0 THEN Splice(elements, index) ELSE elements
           /\ thrown' = "none"
    /\ UNCHANGED <<elementsNeg1, scrollY, id, ticking, scrollDown, listening,
                   singleton, rafPending, style, windowScrollY, windowHeight>>

updateElement(i, options) ==
    LET index == FindIndex(elements, i)
        \* of the object at elements[-1] only its presence is kept
        old == IF index # 0 THEN elements[index] ELSE EmptyObject
        element == SetKey(ObjectAssign(old, options), "ref", Anonymous)
        els1 == ReplaceAt(elements, index, element)
        u == update(els1, style, ticking, scrollY, windowHeight, windowScrollY)
    IN  /\ UNCHANGED <<scrollY, id, scrollDown, listening, singleton,
                       rafPending, windowScrollY, windowHeight>>
        /\ elementsNeg1' = (elementsNeg1 \/ index = 0)
        /\ thrown' = u.threw
        /\ ticking' = u.ticking
        /\ elements' = u.els
        /\ style' = u.style

Update ==
    LET u == update(elements, style, ticking, scrollY, windowHeight,
                    windowScrollY)
    IN  /\ elements' = u.els
        /\ style' = u.style
        /\ ticking' = u.ticking
        /\ thrown' = u.threw
        /\ UNCHANGED <<elementsNeg1, scrollY, id, scrollDown, listening,
                       singleton, rafPending, windowScrollY, windowHeight>>

reset ==
    /\ style' = _removeParallaxStyles(elements, style, 1)
    /\ thrown' = "none"
    /\ UNCHANGED <<elements, elementsNeg1, scrollY, id, ticking, scrollDown,
                   listening, singleton, rafPending, windowScrollY,
                   windowHeight>>

\* a slip: removeEventListener is given another function, the listeners stay
_removeListenersStay == TRUE

\* _removeListeners: whether the listeners are attached afterwards
_removeListeners == FALSE

destroy ==
    /\ listening' = _removeListeners
    /\ style' = _removeParallaxStyles(elements, style, 1)
    /\ singleton' = FALSE
    /\ thrown' = "none"
    /\ UNCHANGED <<elements, elementsNeg1, scrollY, id, ticking, scrollDown,
                   rafPending, windowScrollY, windowHeight>>

(* ------------------------- events of the browser ----------------------- *)

\* a slip: the handler returns at once while a frame is requested
_handleScrollReturnsEarly(y) ==
    LET prevScrollY == scrollY
        request == ~ticking /\ Len(elements) > 0
    IN  IF ticking
        THEN [scrollY |-> scrollY, scrollDown |-> scrollDown,
              ticking |-> ticking, rafPending |-> rafPending]
        ELSE [scrollY |-> y,
              scrollDown |-> IF y > prevScrollY THEN "true" ELSE "false",
              ticking |-> IF request THEN TRUE ELSE ticking,
              rafPending |-> IF request THEN rafPending + 1 ELSE rafPending]

\* _handleScroll with window.scrollY = y: [scrollY, scrollDown, ticking, raf]
_handleScroll(y) ==
    LET prevScrollY == scrollY
        request == ~ticking /\ Len(elements) > 0
    IN  [scrollY |-> y,
         scrollDown |-> IF y > prevScrollY THEN "true" ELSE "false",
         ticking |-> IF request THEN TRUE ELSE ticking,
         rafPending |-> IF request THEN rafPending + 1 ELSE rafPending]

\* the page scrolls to y; the scroll listener runs if it is attached
ScrollEvent(y) ==
    /\ y # windowScrollY
    /\ windowScrollY' = y
    /\ IF listening
       THEN LET h == _handleScroll(y)
            IN  /\ h.rafPending <= MaxPending
                /\ scrollY' = h.scrollY
                /\ scrollDown' = h.scrollDown
                /\ ticking' = h.ticking
                /\ rafPending' = h.rafPending
                /\ thrown' = "none"
       ELSE /\ UNCHANGED <<scrollY, scrollDown, ticking, rafPending>>
            /\ thrown' = "none"
    /\ UNCHANGED <<elements, elementsNeg1, id, listening, singleton, style,
                   windowHeight>>

\* the window is resized to height h; _handleResize runs if it is attached
ResizeEvent(h) ==
    /\ windowHeight' = h
    /\ IF listening
       THEN LET u == update(elements, style, ticking, scrollY, h, windowScrollY)
            IN  /\ elements' = u.els
                /\ style' = u.style
                /\ ticking' = u.ticking
                /\ thrown' = u.threw
       ELSE /\ UNCHANGED <<elements, style, ticking>>
            /\ thrown' = "none"
    /\ UNCHANGED <<elementsNeg1, scrollY, id, scrollDown, listening, singleton,
                   rafPending, windowScrollY>>

\* the browser runs one requested frame callback: _updateElementPositions
FrameCallback ==
    /\ rafPending > 0
    /\ rafPending' = rafPending - 1
    /\ LET p == _updateElementPositions(elements, 1, style, ticking, scrollY)
       IN  /\ style' = p.style
           /\ ticking' = p.ticking
           /\ thrown' = p.threw
    /\ UNCHANGED <<elements, elementsNeg1, scrollY, id, scrollDown, listening,
                   singleton, windowScrollY, windowHeight>>

Next ==
    \/ \E options \in CreateOptions(id + 1) : createElement(options)
    \/ \E r \in Handles(elements) \cup {Foreign} : removeElement(r)
    \/ \E i \in 1..MaxId, options \in UpdateOptions : updateElement(i, options)
    \/ Update
    \/ reset
    \/ destroy
    \/ \E y \in ScrollPositions : ScrollEvent(y)
    \/ \E h \in WindowHeights : ResizeEvent(h)
    \/ FrameCallback

Spec == Init /\ [][Next]_vars

(* ------------------------ the one-element page ------------------------- *)

\* the state after construction and one call createElement(options) that
\* returned the handle 1, on a page whose only node pair is options._node
InitLayout ==
    \E options \in LayoutOptions, h \in LayoutWindowHeights :
        LET element == options @@ [id |-> 1, ref |-> 1]
            u == update(<<element>>, [n \in {options._node} |-> NoStyle],
                        FALSE, 0, h, 0)
        IN  /\ elements = u.els
            /\ elementsNeg1 = FALSE
            /\ scrollY = 0
            /\ id = 1
            /\ ticking = u.ticking
            /\ scrollDown = "null"
            /\ listening = TRUE
            /\ singleton = TRUE
            /\ rafPending = 0
            /\ style = u.style
            /\ windowScrollY = 0
            /\ windowHeight = h
            /\ thrown = u.threw

\* the page is scrolled and resized, frames run, update() is called
NextLayout ==
    \/ \E y \in LayoutScrollPositions : ScrollEvent(y)
    \/ \E h \in LayoutWindowHeights : ResizeEvent(h)
    \/ FrameCallback
    \/ Update

SpecLayout == InitLayout /\ [][NextLayout]_vars

(* ------------------------------- claims -------------------------------- *)

\* C1: in every reachable state at most one frame callback is pending; a
\* scroll event that arrives while one is pending requests no second one.
C1_AtMostOneFramePending == rafPending <= 1

\* C2: whatever the registry holds when the frame callback runs, the
\* scheduling flag is idle once the callback has finished.
C2_FrameCallbackClearsFlag == [][FrameCallback => ~ticking']_vars

\* C3: no two entries of the registry have the same id, and no call changes
\* the id of an entry that stays in the registry.
C3_IdsUniqueAndImmutable ==
    [][/\ \A j, k \in 1..Len(elements') :
              j # k => elements'[j].id # elements'[k].id
       /\ Len(elements') >= Len(elements) =>
              \A k \in 1..Len(elements) : elements'[k].id = elements[k].id
      ]_vars

\* the unit an offset string is given in ("%" when it names none)
UnitOfString(str) == IF str.suffix = "px" THEN "px" ELSE "%"

\* props names a min and a max offset of one axis in different units
DifferentUnits(props) ==
    \/ /\ {"offsetYMin", "offsetYMax"} \subseteq DOMAIN props
       /\ UnitOfString(props.offsetYMin) # UnitOfString(props.offsetYMax)
    \/ /\ {"offsetXMin", "offsetXMax"} \subseteq DOMAIN props
       /\ UnitOfString(props.offsetXMin) # UnitOfString(props.offsetXMax)

\* the props an element has after updateElement(i, options)
PropsAfterUpdate(i, options) ==
    IF "props" \in DOMAIN options THEN options.props
    ELSE elements[FindIndex(elements, i)].props

\* the step is a call of createElement or of updateElement for a registered
\* id whose resulting props satisfy P
CallWithProps(P(_)) ==
    \/ \E options \in CreateOptions(id + 1) :
           P(options.props) /\ createElement(options)
    \/ \E i \in 1..MaxId, options \in UpdateOptions :
           /\ FindIndex(elements, i) # 0
           /\ P(PropsAfterUpdate(i, options))
           /\ updateElement(i, options)

C4_AnyProps(props) == DifferentUnits(props)
C4_EnabledProps(props) == DifferentUnits(props) /\ ~Truthy(props, "disabled")

\* C4 as stated: a createElement or updateElement call whose resulting offset
\* props have different units on one axis raises the configuration error,
\* whatever the element's other props are.
C4_MismatchAlwaysRaises ==
    [][CallWithProps(C4_AnyProps) => thrown' = "config"]_vars

\* C4 as amended: a createElement call, or an updateElement call for a
\* registered id, whose resulting offset props have different units on one
\* axis raises the configuration error when the element is not disabled.
C4_MismatchRaisesUnlessDisabled ==
    [][CallWithProps(C4_EnabledProps) => thrown' = "config"]_vars

\* C4 witness: the last call threw the configuration error and left an
\* enabled element with mismatched units at the end of the registry
C4_Witness ==
    /\ thrown = "config"
    /\ Len(elements) > 0
    /\ C4_EnabledProps(elements[Len(elements)].props)
    /\ "offsets" \notin DOMAIN elements[Len(elements)]

\* the entries of the registry: their identity, id and props, in order
Entries(els) ==
    [k \in 1..Len(els) |-> <<els[k].ref, els[k].id, els[k].props>>]

\* C5: updateElement with an id no registered element has leaves the
\* registry's sequence as it was: its length, its order and every entry's
\* id and props.
C5_UnknownIdKeepsRegistry ==
    [][\A i \in 1..MaxId, options \in UpdateOptions :
           ((\A k \in 1..Len(elements) : elements[k].id # i)
                /\ updateElement(i, options))
               => Entries(elements') = Entries(elements)
      ]_vars

\* C5 witness: updateElement has been called with an unknown id (the array
\* has its property "-1") and the registry holds two entries
C5_Witness == elementsNeg1 /\ Len(elements) = 2

\* the configuration props
PropKeys ==
    {"disabled", "slowerScrollRate", "offsetYMin", "offsetYMax",
     "offsetXMin", "offsetXMax"}

\* the other entries of the registry are as they were
OthersKept(index) ==
    /\ Len(elements') = Len(elements)
    /\ \A k \in 1..Len(elements) :
           k # index => Entries(elements')[k] = Entries(elements)[k]

\* C6 as stated: updateElement for a registered id puts, at the same
\* position, an entry in which every configuration prop named in options has
\* the new value and every other configuration prop keeps its value; the
\* other entries and their order are unchanged.
C6_UpdateMergesProps ==
    [][\A i \in 1..MaxId, options \in UpdateOptions :
           updateElement(i, options) /\ FindIndex(elements, i) # 0 =>
               LET index == FindIndex(elements, i)
                   old == elements[index].props
                   new == elements'[index].props
                   named == IF "props" \in DOMAIN options
                            THEN DOMAIN options.props ELSE {}
               IN  /\ OthersKept(index)
                   /\ \A key \in PropKeys \cap named :
                          key \in DOMAIN new /\ new[key] = options.props[key]
                   /\ \A key \in (PropKeys \cap DOMAIN old) \ named :
                          key \in DOMAIN new /\ new[key] = old[key]
      ]_vars

\* C6 as amended: updateElement for a registered id puts, at the same
\* position, a new object in which every key named in options (props, id)
\* has the value options gives it - a props object replaces the previous
\* one as a whole - and every other key (id, props, the nodes) keeps its
\* value; the other entries keep their identity, id, props and order.
C6_UpdateReplacesKeys ==
    [][\A i \in 1..MaxId, options \in UpdateOptions :
           updateElement(i, options) /\ FindIndex(elements, i) # 0 =>
               LET index == FindIndex(elements, i)
                   old == elements[index]
                   new == elements'[index]
               IN  /\ OthersKept(index)
                   /\ new.ref = Anonymous
                   /\ \A key \in {"id", "props", "_node"} :
                          new[key] = IF key \in DOMAIN options
                                     THEN options[key] ELSE old[key]
      ]_vars

\* C6 witness: an entry whose props were replaced by a props object that
\* names only some props, after offsets had been derived from the old ones
C6_Witness ==
    \E k \in 1..Len(elements) :
        /\ elements[k].ref = Anonymous
        /\ elements[k].props = PropsDisabledBadY
        /\ "offsets" \in DOMAIN elements[k]

\* every element of the registry has the reset style on its _inner node
AllReset(els, st) == \A k \in 1..Len(els) : st[els[k]._node] = ResetStyle

CreateReturns ==
    \E options \in CreateOptions(id + 1) :
        /\ createElement(options)
        /\ ~Truthy(options.props, "disabled")
        /\ ~DifferentUnits(options.props)
        /\ thrown' = "none"

\* after the call the handle is the last entry, with offsets and attributes
CreatedLast ==
    LET e == elements'[Len(elements')]
    IN  /\ Len(elements') = Len(elements) + 1
        /\ e.ref = id' /\ e.ref \in Handles(elements')
        /\ e.id = id'
        /\ {"offsets", "attributes"} \subseteq DOMAIN e

\* the viewport-relative top and bottom of element e, in 1/Scale px
ViewTop(e) == e.attributes.top - scrollY * Scale
ViewBottom(e) == e.attributes.bottom - scrollY * Scale

\* element e overlaps the viewport at the tracked scroll position
Overlaps(e) ==
    ViewTop(e) <= e.attributes.windowHeight /\ ViewBottom(e) >= 0

\* C8 as stated: when createElement returns for an enabled element with
\* valid offsets, the element is the last entry and the returned handle, has
\* offsets and attributes, and its _inner node has its parallax transform.
C8_CreateAppliesTransform ==
    [][CreateReturns =>
           /\ CreatedLast
           /\ style'[elements'[Len(elements')]._node].willChange = "transform"
      ]_vars

\* C8 as amended: ... and its _inner node has its parallax transform if the
\* element overlaps the viewport at the tracked scroll position; otherwise
\* the node's style is left as it was.
C8_CreateAppliesTransformInView ==
    [][CreateReturns =>
           LET e == elements'[Len(elements')]
           IN  /\ CreatedLast
               /\ IF Overlaps(e)
                  THEN /\ style'[e._node].willChange = "transform"
                       /\ style'[e._node].yUnit = e.offsets.yUnit
                       /\ style'[e._node].xUnit = e.offsets.xUnit
                  ELSE style'[e._node] = style[e._node]
      ]_vars

\* C8 witness: the handle of the last call is the last entry and its node
\* carries a parallax transform
C8_Witness ==
    /\ Len(elements) > 0
    /\ thrown = "none"
    /\ LET e == elements[Len(elements)]
       IN  /\ e.ref = id
           /\ "attributes" \in DOMAIN e
           /\ style[e._node].willChange = "transform"

C10_DestroyStopsEvents ==
    [][/\ destroy => ~listening' /\ rafPending' = rafPending
       /\ ~listening => ~listening'
       /\ (~listening /\ ((\E y \in ScrollPositions : ScrollEvent(y))
                          \/ (\E h \in WindowHeights : ResizeEvent(h))))
              => UNCHANGED <<scrollY, scrollDown, ticking, rafPending, style,
                             elements>>
       /\ (~listening /\ rafPending' # rafPending)
              => FrameCallback /\ rafPending' = rafPending - 1
      ]_vars

\* C10 witness: after destroy() a scroll event has moved the page without
\* moving the tracked position, and a frame callback requested before is
\* still pending
C10_Witness ==
    /\ ~listening
    /\ windowScrollY # scrollY
    /\ rafPending > 0
    /\ ticking

(* ------------------------ the handle of an element --------------------- *)

\* createElement has returned the handle 1 (InitLayout); the caller updates
\* the element by its id and removes it by its handle while the page is
\* scrolled
NextHandle ==
    \/ \E options \in UpdateOptions : updateElement(1, options)
    \/ removeElement(1)
    \/ \E y \in ScrollPositions : ScrollEvent(y)
    \/ FrameCallback

SpecHandle == InitLayout /\ [][NextHandle]_vars

(* ------------------------ the page after destroy() --------------------- *)

\* the caller calls no public method once destroy() has returned; the
\* browser goes on sending events and running the frames requested
NextDestroyed ==
    \/ singleton /\ Next
    \/ ~singleton /\ \E y \in ScrollPositions : ScrollEvent(y)
    \/ ~singleton /\ \E h \in WindowHeights : ResizeEvent(h)
    \/ ~singleton /\ FrameCallback

SpecDestroyed == Init /\ [][NextDestroyed]_vars

(* ---------------------- claims on the position pass -------------------- *)

\* a <= b for rationals <<numerator, denominator>> with denominator >= 0;
\* <<1, 0>> is Infinity, <<-1, 0>> is -Infinity and <<0, 0>> is NaN, which
\* compares false with everything
RatLeq(a, b) ==
    /\ a # <<0, 0>> /\ b # <<0, 0>>
    /\ IF a[2] = 0 /\ b[2] = 0 THEN a[1] <= b[1]
       ELSE a[1] * b[2] <= b[1] * a[2]

\* the value a + (b - a) * pm / 100 of the line that is a at pm = 0 and b at
\* pm = 100
Linear(pm, a, b) == Rat(a * 100 * pm[2] + (b - a) * pm[1], 100 * pm[2])

\* the step runs the position pass: a frame callback, update() or a resize
PositionPass ==
    \/ FrameCallback
    \/ Update
    \/ \E h \in WindowHeights \cup LayoutWindowHeights :
           listening /\ ResizeEvent(h)

\* the position pass of the step has written the transform of element e
Applied(e) ==
    /\ ~Truthy(e.props, "disabled")
    /\ "attributes" \in DOMAIN e
    /\ _isElementInView(e, scrollY')

\* C11: for both axes the offset the position pass writes is percentMoved
\* rescaled linearly from [0, 100]: with slowerScrollRate false it is the
\* configured max at percentMoved 0 and the configured min at 100, with
\* slowerScrollRate true the configured min at 0 and the configured max at
\* 100.
C11_OffsetsRescaleLinearly ==
    [][(PositionPass /\ thrown' = "none") =>
           \A k \in 1..Len(elements') :
               LET e == elements'[k]
                   p == e.props
                   pm == PercentMoved(e, scrollY')
               IN  Applied(e) =>
                       IF Truthy(p, "slowerScrollRate")
                       THEN /\ style'[e._node].y =
                                   Linear(pm, p.offsetYMin.num, p.offsetYMax.num)
                            /\ style'[e._node].x =
                                   Linear(pm, p.offsetXMin.num, p.offsetXMax.num)
                       ELSE /\ style'[e._node].y =
                                   Linear(pm, p.offsetYMax.num, p.offsetYMin.num)
                            /\ style'[e._node].x =
                                   Linear(pm, p.offsetXMax.num, p.offsetXMin.num)
      ]_vars

\* the registered elements the position pass looks at
Positioned ==
    { elements[k] : k \in { j \in 1..Len(elements) :
                              /\ ~Truthy(elements[j].props, "disabled")
                              /\ "attributes" \in DOMAIN elements[j] } }

\* C12: for an element whose cached top is not below its cached bottom and
\* any tracked scroll position, the visibility check is true exactly when
\* the viewport-relative top is in [0, windowHeight], or the bottom is in
\* [0, windowHeight], or top <= 0 and bottom >= windowHeight: true at
\* top = 0 and at bottom = windowHeight, false when the element is entirely
\* above (bottom < 0) or entirely below (top > windowHeight) the viewport.
C12_VisibilityCheck ==
    \A e \in Positioned, s \in LayoutScrollPositions \cup ScrollPositions :
        LET top == e.attributes.top - s * Scale
            bottom == e.attributes.bottom - s * Scale
            wh == e.attributes.windowHeight
            inView == _isElementInView(e, s)
        IN  e.attributes.top <= e.attributes.bottom =>
                /\ inView <=> \/ (0 <= top /\ top <= wh)
                              \/ (0 <= bottom /\ bottom <= wh)
                              \/ (top <= 0 /\ bottom >= wh)
                /\ inView <=> ~(bottom < 0 \/ top > wh)
                /\ top = 0 => inView
                /\ bottom = wh => inView

\* C12 witness: the top edge of a registered element that is shorter than
\* the window is exactly at the top of the viewport, the check is true and
\* the pass has written the element's transform for this position
C12_Witness ==
    \E e \in Positioned :
        /\ e.attributes.top <= e.attributes.bottom
        /\ ViewTop(e) = 0
        /\ ViewBottom(e) < e.attributes.windowHeight
        /\ _isElementInView(e, scrollY)
        /\ style[e._node] = ParallaxStyle(e, scrollY)

\* the styles after a scroll event to position s and the frame callback
\* that follows it, starting from the styles st
ScrollAndFrame(st, s) == _updateElementPositions(elements, 1, st, TRUE, s).style

\* the styles after the frames at s, then at s2, then at s again
RoundTrip(s, s2) ==
    ScrollAndFrame(ScrollAndFrame(ScrollAndFrame(style, s), s2), s)

\* C13 as stated: with the element's size, position and props fixed, for
\* any two scroll positions s and s2, scroll to s and frame, scroll to s2
\* and frame, scroll back to s and frame leaves the element's transform
\* equal to the one it had after the first frame at s.
C13_RoundTrip ==
    \A s, s2 \in LayoutScrollPositions :
        \A e \in Positioned :
            RoundTrip(s, s2)[e._node] = ScrollAndFrame(style, s)[e._node]

\* C13 as amended: ... for any two scroll positions s and s2 such that the
\* visibility check is true for the element at s, the round trip leaves the
\* element's transform equal to the one it had after the first frame at s.
C13_RoundTripInView ==
    \A s, s2 \in LayoutScrollPositions :
        \A e \in Positioned :
            _isElementInView(e, s) =>
                RoundTrip(s, s2)[e._node] = ScrollAndFrame(style, s)[e._node]

\* C13 witness: the page has been scrolled back up to a position at which
\* the element is in view, the frame has run and the element carries the
\* transform of this position
C13_Witness ==
    /\ scrollDown = "false" /\ scrollY # 0
    /\ ~ticking /\ rafPending = 0
    /\ \E e \in Positioned :
           /\ _isElementInView(e, scrollY)
           /\ style[e._node] = ParallaxStyle(e, scrollY)
           /\ style = RoundTrip(scrollY, 0)

\* percentMoved does not decrease from scroll position s1 to s2 >= s1
NonDecreasing(e) ==
    \A s1, s2 \in LayoutScrollPositions :
        s1 <= s2 => RatLeq(PercentMoved(e, s1), PercentMoved(e, s2))

\* C14 as stated: with the cached attributes fixed, percentMoved is
\* monotonically non-decreasing in the tracked scroll position, for every
\* element height, window height and pair of y offsets that setup accepts.
C14_PercentMovedMonotone == \A e \in Positioned : NonDecreasing(e)

\* C14 as amended: ... for every element height, window height and pair of
\* y offsets that setup accepts and for which the cached totalDist
\* (windowHeight + elHeight + |yMinPx| + yMaxPx) is positive.
C14_PercentMovedMonotoneIfDistPositive ==
    \A e \in Positioned : e.attributes.totalDist > 0 => NonDecreasing(e)

\* C14 witness: the page has been scrolled down, the frame has written the
\* transform of an element with positive totalDist, and percentMoved at
\* this position is larger than at the position 0
C14_Witness ==
    /\ scrollDown = "true"
    /\ \E e \in Positioned :
           /\ e.attributes.totalDist > 0
           /\ _isElementInView(e, scrollY)
           /\ style[e._node] = ParallaxStyle(e, scrollY)
           /\ ~RatLeq(PercentMoved(e, scrollY), PercentMoved(e, 0))

\* element e has offsets and attributes, both derived from its props as
\* they are now
DerivedFromProps(e) ==
    /\ {"offsets", "attributes"} \subseteq DOMAIN e
    /\ ~UnitsMismatch(e.props)
    /\ e.offsets = OffsetsOf(e.props)
    /\ e.attributes =
           AttributesOf(OffsetsOf(e.props), e.props, e._node, windowHeight', 0)

\* C15: whenever the position pass - run by a frame callback, a resize
\* event or update() - evaluates a registered element that is not disabled,
\* the element has offsets and attributes, and both were derived together
\* from the element's current props.
C15_PassReadsDerivedState ==
    [][(thrown' # "config" /\ PositionPass) =>
           \A k \in 1..Len(elements') :
               ~Truthy(elements'[k].props, "disabled") =>
                   DerivedFromProps(elements'[k])
      ]_vars

\* lo <= v <= hi or hi <= v <= lo, for a rational v and integers lo, hi
Between(v, lo, hi) ==
    \/ RatLeq(<<lo, 1>>, v) /\ RatLeq(v, <<hi, 1>>)
    \/ RatLeq(<<hi, 1>>, v) /\ RatLeq(v, <<lo, 1>>)

\* the configured y offsets of props satisfy offsetYMin <= 0 <= offsetYMax
YAroundZero(props) == props.offsetYMin.num <= 0 /\ 0 <= props.offsetYMax.num

\* C16: whenever the position pass applies a transform to an element whose
\* attributes are current and whose y offsets satisfy offsetYMin <= 0 <=
\* offsetYMax, percentMoved lies in [0, 100], is 0 when the offset-adjusted
\* top is at the bottom of the viewport and 100 when the offset-adjusted
\* bottom is at the top of the viewport, and each applied offset lies
\* between the configured min and max of its axis.
C16_PercentMovedInRange ==
    [][(PositionPass /\ thrown' = "none") =>
           \A k \in 1..Len(elements') :
               LET e == elements'[k]
                   p == e.props
                   pm == PercentMoved(e, scrollY')
                   top == e.attributes.top - scrollY' * Scale
                   bottom == e.attributes.bottom - scrollY' * Scale
               IN  (/\ Applied(e)
                    /\ e.attributes.windowHeight = windowHeight' * Scale
                    /\ YAroundZero(p)) =>
                       /\ RatLeq(<<0, 1>>, pm) /\ RatLeq(pm, <<100, 1>>)
                       /\ top = e.attributes.windowHeight => pm = <<0, 1>>
                       /\ bottom = 0 => pm = <<100, 1>>
                       /\ style'[e._node].willChange = "transform"
                       /\ Between(style'[e._node].y,
                                  p.offsetYMin.num, p.offsetYMax.num)
                       /\ Between(style'[e._node].x,
                                  p.offsetXMin.num, p.offsetXMax.num)
      ]_vars

\* C16 witness: the pass has written the transform of an element whose
\* offset-adjusted bottom is exactly at the top of the viewport:
\* percentMoved is 100 and the y offset written is an end of its range
C16_Witness ==
    \E e \in Positioned :
        /\ YAroundZero(e.props)
        /\ ViewBottom(e) = 0
        /\ PercentMoved(e, scrollY) = <<100, 1>>
        /\ style[e._node] = ParallaxStyle(e, scrollY)
        /\ style[e._node].y \in {<<e.props.offsetYMin.num, 1>>,
                                  <<e.props.offsetYMax.num, 1>>}

\* C17: every scroll event the listener handles sets the tracked position
\* and the direction, whether or not it requests a frame; it requests a
\* frame exactly when the flag is idle and the registry is not empty; so a
\* frame callback computes the transforms from the position of the latest
\* scroll event before it runs, not from the position at its request.
C17_ScrollAlwaysTracked ==
    [][/\ \A y \in ScrollPositions :
              (listening /\ ScrollEvent(y)) =>
                  /\ scrollY' = y
                  /\ scrollDown' = IF y > scrollY THEN "true" ELSE "false"
                  /\ rafPending' =
                         IF ~ticking /\ Len(elements) > 0
                         THEN rafPending + 1 ELSE rafPending
                  /\ ticking' = (ticking \/ Len(elements) > 0)
       /\ (listening /\ FrameCallback) =>
              style' = _updateElementPositions(elements, 1, style, ticking,
                                               windowScrollY).style
      ]_vars

\* C17 witness: a frame is requested and not yet run, and the tracked
\* position and direction are those of a later scroll event, back up to
\* the top of the page, where an element is in view
C17_Witness ==
    /\ listening /\ ticking /\ rafPending = 1
    /\ scrollDown = "false" /\ scrollY = 0 /\ windowScrollY = 0
    /\ \E e \in Positioned : _isElementInView(e, scrollY)

\* the registry after removeElement(object of identity r)
AfterRemove(r) ==
    LET index == IndexOf(elements, r)
    IN  IF index # 0 THEN Splice(elements, index) ELSE elements

\* C18: the handle createElement returned (identity 1, id 1) stays
\* removable: in every state reached by updateElement calls for its id,
\* removeElement(handle) leaves the registry without an entry of that id.
C18_HandleStaysRemovable ==
    \A k \in 1..Len(AfterRemove(1)) : AfterRemove(1)[k].id # 1

\* the step is a call of createElement or updateElement that raises the
\* configuration error
RaisingCall ==
    /\ thrown' = "config"
    /\ \/ \E options \in CreateOptions(id + 1) : createElement(options)
       \/ \E i \in 1..MaxId, options \in UpdateOptions :
              updateElement(i, options)

\* C19: a createElement or updateElement call that raises the
\* configuration error leaves the registry as it was - the same entries
\* with the same props - so that update(), resize events and frame
\* callbacks after it complete without raising.
C19_RaisingCallKeepsRegistry ==
    [][/\ RaisingCall => Entries(elements') = Entries(elements)
       /\ PositionPass => thrown' = "none"
      ]_vars

\* C20 as stated: once destroy() has returned, every registered element's
\* transform is the reset value in every later state in which no public
\* method is called, whatever scroll, resize and frame-callback events
\* follow.
C20_DestroyedStaysReset == ~singleton => AllReset(elements, style)

\* C20 as amended: ... provided no frame callback is pending when
\* destroy() returns: destroy() resets every transform, and from a state
\* after destroy() with every transform reset and no frame pending, every
\* event leads to such a state again.
C20_DestroyedStaysResetIfNoFramePending ==
    [][/\ destroy => AllReset(elements', style') /\ rafPending' = rafPending
       /\ (~singleton /\ rafPending = 0 /\ AllReset(elements, style)) =>
              AllReset(elements', style') /\ rafPending' = 0
      ]_vars

\* C20 witness: destroy() was called with no frame pending, the page was
\* scrolled afterwards to a position at which an enabled element is in
\* view, and every transform is still the reset value
C20_Witness ==
    /\ ~singleton /\ rafPending = 0
    /\ windowScrollY # scrollY
    /\ AllReset(elements, style)
    /\ \E e \in Positioned : _isElementInView(e, windowScrollY)

====
